---- MODULE Spec2Model ----
(***************************************************************************)
(* Aptix API server: the two agent endpoints of the Express application,   *)
(*   GET  /api/agent/:name            (metadata fetch)                      *)
(*   POST /api/agent/:name/interact   (interaction pipeline)                *)
(* together with the body-parsing middleware and the error handler         *)
(* middleware that stand around them.                                      *)
(*                                                                         *)
(* A request is an async handler.  It runs synchronously up to its next    *)
(* await and is resumed when the awaited collaborator call resolves or     *)
(* rejects, so every action below is one such synchronous stretch.  The    *)
(* three await points are the Firestore document read, the OpenAI chat     *)
(* completion and the Firestore analytics add.                             *)
(*                                                                         *)
(* JavaScript objects are functions from their own keys to values: a key   *)
(* that is not in DOMAIN is an absent (undefined) property.  Values whose  *)
(* type matters are tagged: [str |-> s], [num |-> n], [null |-> TRUE].     *)
(* A rejection carries an Error object [message, stack], which is what     *)
(* firebase-admin and the openai client reject with.                       *)
(***************************************************************************)
EXTENDS Integers, Sequences, FiniteSets, TLC

\* Number of requests the server receives in one run (they may overlap).
NumRequests == 2

\* Joi.string().min(1).max(1000)
MinMessageLen == 1
MaxMessageLen == 1000

Requests == 1..NumRequests

RECURSIVE Repeat(_, _)
\* s repeated n times (balanced, so that the recursion stays shallow)
Repeat(s, n) ==
  IF n = 0 THEN ""
  ELSE IF n = 1 THEN s
  ELSE Repeat(s, n \div 2) \o Repeat(s, n - (n \div 2))

(***************************************************************************)
(* Inputs                                                                  *)
(***************************************************************************)

\* Path parameter values.  "unknown-agent" is never a document of the store.
Names == {"Aura", "unknown-agent"}

SolanaQuestion == "What is the current market cap of Solana?"

\* Parsed JSON bodies (req.body after express.json()); <<>> is {}.
Bodies ==
  { <<>>,
    [message |-> [num |-> 42]],
    [message |-> [str |-> ""]],
    [message |-> [str |-> "?"]],
    [message |-> [str |-> SolanaQuestion]],
    [message |-> [str |-> Repeat("a", MaxMessageLen)]],
    [message |-> [str |-> Repeat("a", MaxMessageLen + 1)]],
    [message |-> [str |-> "hi"], stream |-> [num |-> 1]] }

\* Errors express.json() passes to next(err) for a body it cannot parse.
ParseErrors ==
  { [message |-> "Unexpected token } in JSON at position 12",
     stack   |-> "SyntaxError: Unexpected token } in JSON at position 12 at JSON.parse"],
    [message |-> "Unexpected end of JSON input",
     stack   |-> "SyntaxError: Unexpected end of JSON input at JSON.parse"] }

\* Rejections of docRef.get().
StoreFaults ==
  { [message |-> "14 UNAVAILABLE: No connection established",
     stack   |-> "Error: 14 UNAVAILABLE: No connection established at callErrorFromStatus"],
    [message |-> "7 PERMISSION_DENIED: Missing or insufficient permissions",
     stack   |-> "Error: 7 PERMISSION_DENIED at callErrorFromStatus"] }

\* Rejections of db.collection('analytics').add().
AnalyticsFaults ==
  { [message |-> "4 DEADLINE_EXCEEDED: Deadline exceeded",
     stack   |-> "Error: 4 DEADLINE_EXCEEDED: Deadline exceeded at callErrorFromStatus"] }

\* Rejections of openai.chat.completions.create().
ProviderFaults ==
  { [message |-> "Request timed out.",
     stack   |-> "APIConnectionTimeoutError: Request timed out. at OpenAI.makeRequest"],
    [message |-> "429 You exceeded your current quota",
     stack   |-> "RateLimitError: 429 You exceeded your current quota at APIError.generate"] }

\* Values openai.chat.completions.create() may resolve with.
ProviderResponses ==
  { [object |-> "chat.completion"],
    [object |-> "chat.completion", choices |-> <<>>],
    [object |-> "chat.completion", choices |-> <<[index |-> 0]>>],
    [object |-> "chat.completion",
     choices |-> <<[index |-> 0, message |-> [role |-> "assistant", content |-> [null |-> TRUE]]]>>],
    [object |-> "chat.completion",
     choices |-> <<[index |-> 0, message |-> [role |-> "assistant", content |-> [str |-> ""]]]>>],
    [object |-> "chat.completion",
     choices |-> <<[index |-> 0, message |-> [role |-> "assistant",
                    content |-> [str |-> "I do not have live market data."]]]>>] }

\* Contents of the agents collection: document id |-> document data.
AuraProfile ==
  [name |-> "Aura", personality |-> "Helpful and concise market analyst", description |-> ""]

Stores ==
  { [n \in {"Aura"} |-> AuraProfile] }

(***************************************************************************)
(* src/firebase.js: the module that index.js requires for its db handle    *)
(***************************************************************************)

\* process.env.SERVICE_ACCOUNT_KEY: unset, not JSON, JSON that
\* admin.credential.cert refuses, or a service account.
ServiceAccountKeys ==
  { [set |-> FALSE, json |-> FALSE, cert |-> FALSE],
    [set |-> TRUE,  json |-> FALSE, cert |-> FALSE],
    [set |-> TRUE,  json |-> TRUE,  cert |-> FALSE],
    [set |-> TRUE,  json |-> TRUE,  cert |-> TRUE] }

\* serviceAccountKey.json beside the module: absent, refused by
\* admin.credential.cert, or a service account.
ServiceAccountFiles ==
  { [exists |-> FALSE, cert |-> FALSE],
    [exists |-> TRUE,  cert |-> FALSE],
    [exists |-> TRUE,  cert |-> TRUE] }

\* process.env.NODE_ENV; "" is unset.
NodeEnvs == {"", "development", "test", "production"}

\* What the module finds when it is loaded, and whether
\* admin.initializeApp(firebaseConfig) throws.
Environments ==
  [SERVICE_ACCOUNT_KEY : ServiceAccountKeys,
   file                : ServiceAccountFiles,
   NODE_ENV            : NodeEnvs,
   initializeApp       : {"returns", "throws"}]

\* The environment of a deployed server.
DeployedEnvironment ==
  [SERVICE_ACCOUNT_KEY |-> [set |-> TRUE, json |-> TRUE, cert |-> TRUE],
   file                |-> [exists |-> FALSE, cert |-> FALSE],
   NODE_ENV            |-> "production",
   initializeApp       |-> "returns"]

ModuleLine(level, message) == [level |-> level, message |-> message]

ErrorOf(message) == [message |-> message, stack |-> "Error: " \o message]

\* firebaseConfig from SERVICE_ACCOUNT_KEY or else from the local file, or the
\* error thrown on the way.
FirebaseConfig(env) ==
  IF env.SERVICE_ACCOUNT_KEY.set
    THEN IF env.SERVICE_ACCOUNT_KEY.json /\ env.SERVICE_ACCOUNT_KEY.cert
           THEN [ok |-> TRUE, error |-> <<>>,
                 log |-> << ModuleLine("info", "Initializing Firebase with service account from environment variable") >>]
           ELSE [ok |-> FALSE,
                 error |-> ErrorOf("Invalid SERVICE_ACCOUNT_KEY environment variable format. Must be valid JSON."),
                 log |-> << ModuleLine("info", "Initializing Firebase with service account from environment variable"),
                            ModuleLine("error", "Failed to parse SERVICE_ACCOUNT_KEY environment variable") >>]
    ELSE IF ~env.file.exists
           THEN [ok |-> FALSE,
                 error |-> ErrorOf("Service account file not found at: serviceAccountKey.json"),
                 log |-> <<>>]
         ELSE IF ~env.file.cert
           THEN [ok |-> FALSE,
                 error |-> ErrorOf("Failed to parse service account json file"),
                 log |-> << ModuleLine("info", "Initializing Firebase with service account from local file") >>]
         ELSE [ok |-> TRUE, error |-> <<>>,
               log |-> << ModuleLine("info", "Initializing Firebase with service account from local file") >>]

\* The try block: the default app exists at its end only if nothing threw.
TryInitialize(env) ==
  LET config == FirebaseConfig(env)
  IN  IF ~config.ok
        THEN [app |-> FALSE, error |-> config.error, log |-> config.log]
      ELSE IF env.initializeApp = "throws"
        THEN [app |-> FALSE,
              error |-> ErrorOf("Invalid Firebase app options passed as the first argument to initializeApp()"),
              log |-> config.log]
      ELSE [app |-> TRUE, error |-> <<>>,
            log |-> Append(config.log,
                           ModuleLine("info", "Firebase Admin SDK initialized successfully"))]

\* admin.firestore(): the Firestore of the default app; it throws when no
\* default app was initialised.
Firestore(app) ==
  IF app
    THEN [ok |-> TRUE, error |-> <<>>]
    ELSE [ok |-> FALSE,
          error |-> ErrorOf("The default Firebase app does not exist. Make sure you call initializeApp() before using any of the Firebase services.")]

\* The module before it is required.
Unloaded(env) ==
  [env |-> env, pc |-> "unloaded", app |-> FALSE, failed |-> FALSE,
   thrown |-> <<>>, log |-> <<>>]

\* The module body, from `let firebaseConfig = {}` to `module.exports = db`:
\* it ends with db exported or with an exception thrown out of require().
LoadModule(env) ==
  LET try    == TryInitialize(env)
      failed == try.error # <<>>
      caught == IF failed
                  THEN Append(try.log, ModuleLine("error", "Failed to initialize Firebase"))
                  ELSE try.log
  IN  IF failed /\ env.NODE_ENV = "production"
        THEN [env |-> env, pc |-> "threw", app |-> try.app, failed |-> TRUE,
              thrown |-> try.error, log |-> caught]
        ELSE LET warned == IF failed
                             THEN Append(caught, ModuleLine("warn", "Running in development mode with Firebase initialization error. Some features may not work correctly."))
                             ELSE caught
                 db == Firestore(try.app)
             IN  IF db.ok
                   THEN [env |-> env, pc |-> "exported", app |-> try.app,
                         failed |-> failed, thrown |-> <<>>, log |-> warned]
                   ELSE [env |-> env, pc |-> "threw", app |-> try.app,
                         failed |-> failed, thrown |-> db.error, log |-> warned]

(***************************************************************************)
(* State                                                                   *)
(***************************************************************************)

VARIABLES
  agents,     \* Firestore collection 'agents'
  analytics,  \* Firestore collection 'analytics', in the order of the adds
  firebase,   \* the module src/firebase.js: what it found, how far it got,
              \* whether the default app exists, what it threw and logged
  req         \* the requests: handler locals, response, log lines and, as
              \* history, the collaborator calls made, their outcomes, the
              \* error caught and the pipeline phases gone through

vars == <<agents, analytics, firebase, req>>

NoResponse == [status |-> 0, body |-> <<>>]

NoCalls == [get |-> "none", create |-> "none", add |-> "none"]

\* A request the server has not received yet.
Idle ==
  [pc |-> "idle", method |-> "", name |-> "", parsed |-> FALSE, body |-> <<>>,
   message |-> "",
   agentDetails |-> <<>>, systemPrompt |-> "", openAIResponse |-> <<>>,
   agentReply |-> "", res |-> NoResponse, log |-> <<>>,
   reads |-> 0, creates |-> 0, adds |-> 0, io |-> NoCalls, fault |-> <<>>,
   phases |-> <<>>]

Init ==
  /\ agents \in Stores
  /\ analytics = <<>>
  /\ firebase = LoadModule(DeployedEnvironment)
  /\ req = [r \in Requests |-> Idle]

(***************************************************************************)
(* Pure parts of the handlers                                              *)
(***************************************************************************)

IsString(v) == "str" \in DOMAIN v

\* JavaScript truthiness of an optional string property of a document.
Truthy(obj, key) == key \in DOMAIN obj /\ obj[key] # ""

ValidationFailure(text) == [failed |-> TRUE, message |-> text]

\* .min(1)
TooShort(s) == Len(s) < MinMessageLen

\* A limit one too high.
TooLongOffByOne(s) == Len(s) > MaxMessageLen + 1

\* .max(1000)
TooLong(s) == Len(s) > MaxMessageLen

\* interactSchema.validate(req.body): Joi reports the first violated rule of
\* "message", then any key the schema does not declare.
Validate(body) ==
  IF "message" \notin DOMAIN body
    THEN ValidationFailure("\"message\" is required")
  ELSE IF ~IsString(body.message)
    THEN ValidationFailure("\"message\" must be a string")
  ELSE IF body.message.str = ""
    THEN ValidationFailure("\"message\" is not allowed to be empty")
  ELSE IF TooShort(body.message.str)
    THEN ValidationFailure("\"message\" length must be at least 1 characters long")
  ELSE IF TooLong(body.message.str)
    THEN ValidationFailure("\"message\" length must be less than or equal to 1000 characters long")
  ELSE IF DOMAIN body # {"message"}
    THEN ValidationFailure("\"" \o (CHOOSE k \in DOMAIN body : k # "message") \o "\" is not allowed")
  ELSE [failed |-> FALSE, message |-> ""]

\* docRef.get() resolved: the snapshot of document `name`.
Snapshot(store, name) ==
  IF name \in DOMAIN store
    THEN [exists |-> TRUE, data |-> store[name]]
    ELSE [exists |-> FALSE, data |-> <<>>]

PersonalityFallback == "neutral and general."

\* The template with the description interpolated without its `|| ''`.
SystemPromptRawDescription(name, agentDetails) ==
  "You are " \o name \o ", a helpful AI agent with the following personality: "
    \o (IF Truthy(agentDetails, "personality") THEN agentDetails.personality
                                                ELSE PersonalityFallback)
    \o " "
    \o (IF "description" \in DOMAIN agentDetails THEN agentDetails.description
                                                 ELSE "undefined")
    \o "\n    \n    When responding, always maintain your character and consider your knowledge about the Solana blockchain environment."
    \o "\n    Your answers should be concise, helpful, and accurate. If you don't know something, admit it rather than making up information."
    \o "\n    "

\* The system prompt template literal.
SystemPrompt(name, agentDetails) ==
  "You are " \o name \o ", a helpful AI agent with the following personality: "
    \o (IF Truthy(agentDetails, "personality") THEN agentDetails.personality
                                                ELSE PersonalityFallback)
    \o " "
    \o (IF Truthy(agentDetails, "description") THEN agentDetails.description ELSE "")
    \o "\n    \n    When responding, always maintain your character and consider your knowledge about the Solana blockchain environment."
    \o "\n    Your answers should be concise, helpful, and accurate. If you don't know something, admit it rather than making up information."
    \o "\n    "

FallbackReply == "I'm sorry, I couldn't process your request at this time."

\* Reading openAIResponse.choices[0] when the response has no choices property.
NoChoicesError ==
  [message |-> "Cannot read properties of undefined (reading '0')",
   stack   |-> "TypeError: Cannot read properties of undefined (reading '0')"]

\* openAIResponse.choices[0]?.message?.content, for a response that has choices;
\* a missing first choice, message or content, and null, read as "".
FirstContent(response) ==
  IF Len(response.choices) = 0 THEN ""
  ELSE IF "message" \notin DOMAIN response.choices[1] THEN ""
  ELSE IF "content" \notin DOMAIN response.choices[1].message THEN ""
  ELSE IF ~IsString(response.choices[1].message.content) THEN ""
  ELSE response.choices[1].message.content.str

\* openAIResponse.choices[0]?.message?.content || "I'm sorry, ..."
AgentReply(response) ==
  IF FirstContent(response) # "" THEN FirstContent(response) ELSE FallbackReply

\* The timestamps are taken when the response is built (new Date()) and by the
\* store (FieldValue.serverTimestamp()); their values are not modelled.
IsoNow == "new Date().toISOString()"

ServerTimestamp == "FieldValue.serverTimestamp()"

\* The record with the length of the provider's own text: 0 when the
\* fallback took its place.
AnalyticsRecordRawLength(name, message, agentReply) ==
  [agent          |-> name,
   timestamp      |-> ServerTimestamp,
   messageLength  |-> Len(message),
   responseLength |-> IF agentReply = FallbackReply THEN 0 ELSE Len(agentReply),
   type           |-> "interaction"]

\* The record with the two lengths taken from the wrong strings.
AnalyticsRecordSwapped(name, message, agentReply) ==
  [agent          |-> name,
   timestamp      |-> ServerTimestamp,
   messageLength  |-> Len(agentReply),
   responseLength |-> Len(message),
   type           |-> "interaction"]

\* The argument of db.collection('analytics').add(...).
AnalyticsRecord(name, message, agentReply) ==
  [agent          |-> name,
   timestamp      |-> ServerTimestamp,
   messageLength  |-> Len(message),
   responseLength |-> Len(agentReply),
   type           |-> "interaction"]

(***************************************************************************)
(* Responses and log lines                                                 *)
(***************************************************************************)

\* History: the interact handler of request q goes through the phases ps.
\*   Received    the handler is entered          Validating  interactSchema.validate
\*   Rejected    the 400 branch                  Resolving   the document read
\*   NotFound    the 404 branch                  Prompting   the system prompt
\*   Generating  the provider call               Recording   the analytics add
\*   Failed      the outer catch                 Responded   the response is sent
Through(q, ps) == [q EXCEPT !.phases = @ \o ps]

\* res.status(status).json(body), which ends the request.
Respond(q, status, body) ==
  [q EXCEPT !.pc = "done", !.res = [status |-> status, body |-> body]]

\* logger.<level>(message, meta)
Logged(q, level, message, meta) ==
  [q EXCEPT !.log = Append(@, [level |-> level, message |-> message, meta |-> meta])]

ValidationErrorBody(error) ==
  [error |-> "Validation error", message |-> error.message]

\* The body of the unmatched-route handler, sent in place of the agent one.
RouteNotFoundBody(name) ==
  [error |-> "Not found", message |-> "The requested endpoint does not exist"]

AgentNotFoundBody(name) ==
  [error   |-> "Agent not found",
   message |-> "The agent '" \o name \o "' does not exist in the database"]

InteractionBody(name, agentReply) ==
  [agent |-> name, reply |-> agentReply, timestamp |-> IsoNow]

\* A failed read answered as if the document did not exist.
GetCatchAsNotFound(q, error) ==
  Respond(
    Logged([q EXCEPT !.fault = error], "warn", "Agent not found: " \o q.name, <<>>),
    404, AgentNotFoundBody(q.name))

\* catch (error) of GET /api/agent/:name
GetCatch(q, error) ==
  Respond(
    Logged([q EXCEPT !.fault = error], "error",
           "Error fetching agent details: " \o error.message,
           [agent |-> q.name, stack |-> error.stack]),
    500,
    [error   |-> "Internal server error",
     message |-> "An unexpected error occurred while retrieving agent details"])

\* The outer catch with the caught error's message sent to the client.
InteractCatchLeaking(q, error) ==
  Respond(
    Logged([q EXCEPT !.fault = error], "error",
           "Error in agent interaction: " \o error.message,
           [agent |-> q.name, stack |-> error.stack]),
    500,
    [error |-> "Internal server error", message |-> error.message])

\* outer catch (error) of POST /api/agent/:name/interact
InteractCatch(q, error) ==
  Respond(
    Logged(Through([q EXCEPT !.fault = error], <<"Failed", "Responded">>), "error",
           "Error in agent interaction: " \o error.message,
           [agent |-> q.name, stack |-> error.stack]),
    500,
    [error   |-> "Internal server error",
     message |-> "An unexpected error occurred during agent interaction"])

\* The error handler middleware: app.use((err, req, res, next) => ...)
ErrorHandler(q, err) ==
  Respond(
    Logged([q EXCEPT !.fault = err], "error",
           "Unhandled error: " \o err.message, [stack |-> err.stack]),
    500,
    [error   |-> "Internal server error",
     message |-> "An unexpected error occurred"])

(***************************************************************************)
(* The handlers, one operator per synchronous stretch                      *)
(***************************************************************************)

\* db.collection('agents').doc(name).get() is called and awaited.
AwaitGet(q) ==
  [q EXCEPT !.pc = "awaitGet", !.reads = @ + 1]

\* GET /api/agent/:name, from the start to the await of the read.
GetStart(q, name) ==
  AwaitGet([q EXCEPT !.method = "GET", !.name = name])

\* The handler without the schema validation: every body goes on to the read.
InteractStartUnvalidated(q, name, body) ==
  AwaitGet(Through([q EXCEPT !.method = "POST", !.name = name, !.parsed = TRUE,
                             !.body = body],
                   <<"Received", "Validating", "Resolving">>))

\* POST /api/agent/:name/interact, from the start to the 400 response or to
\* the await of the read.
InteractStart(q, name, body) ==
  LET q0 == Through([q EXCEPT !.method = "POST", !.name = name, !.parsed = TRUE,
                               !.body = body],
                    <<"Received", "Validating">>)
      error == Validate(body)
  IN  IF error.failed
        THEN Respond(
               Logged(Through(q0, <<"Rejected", "Responded">>), "warn",
                      "Validation error for agent interaction: " \o error.message, <<>>),
               400, ValidationErrorBody(error))
        ELSE AwaitGet(Through([q0 EXCEPT !.message = body.message.str], <<"Resolving">>))

\* The profile sent inside an envelope instead of as it is stored.
GetResumeWrapped(q, docSnap) ==
  IF ~docSnap.exists
    THEN Respond(Logged(q, "warn", "Agent not found: " \o q.name, <<>>),
                 404, AgentNotFoundBody(q.name))
    ELSE Respond(
           Logged([q EXCEPT !.agentDetails = docSnap.data], "info",
                  "Successfully retrieved agent: " \o q.name, <<>>),
           200, [agent |-> q.name, details |-> docSnap.data, timestamp |-> IsoNow])

\* The GET handler recording the fetch in the analytics collection.
GetResumeCounted(q, docSnap) ==
  IF ~docSnap.exists
    THEN Respond(Logged(q, "warn", "Agent not found: " \o q.name, <<>>),
                 404, AgentNotFoundBody(q.name))
    ELSE Respond(
           Logged([q EXCEPT !.agentDetails = docSnap.data, !.adds = @ + 1], "info",
                  "Successfully retrieved agent: " \o q.name, <<>>),
           200, docSnap.data)

\* GET handler resumed with the snapshot.
GetResume(q, docSnap) ==
  IF ~docSnap.exists
    THEN Respond(Logged(q, "warn", "Agent not found: " \o q.name, <<>>),
                 404, AgentNotFoundBody(q.name))
    ELSE Respond(
           Logged([q EXCEPT !.agentDetails = docSnap.data], "info",
                  "Successfully retrieved agent: " \o q.name, <<>>),
           200, docSnap.data)

\* The handler without the agentDoc.exists check: a missing document goes on
\* to the provider with an empty profile.
InteractResumeUnchecked(q, docSnap) ==
  [Logged(Through(q, <<"Prompting", "Generating">>), "info",
          "Processing interaction with agent: " \o q.name, <<>>)
     EXCEPT !.agentDetails = docSnap.data,
            !.systemPrompt = SystemPrompt(q.name, docSnap.data),
            !.pc = "awaitCreate",
            !.creates = @ + 1]

\* POST handler resumed with the snapshot: 404, or the prompt is built and
\* openai.chat.completions.create(...) is called and awaited.
InteractResume(q, docSnap) ==
  IF ~docSnap.exists
    THEN Respond(Logged(Through(q, <<"NotFound", "Responded">>), "warn",
                        "Agent not found for interaction: " \o q.name, <<>>),
                 404, AgentNotFoundBody(q.name))
    ELSE [Logged(Through(q, <<"Prompting", "Generating">>), "info",
                 "Processing interaction with agent: " \o q.name, <<>>)
            EXCEPT !.agentDetails = docSnap.data,
                   !.systemPrompt = SystemPrompt(q.name, docSnap.data),
                   !.pc = "awaitCreate",
                   !.creates = @ + 1]

\* The analytics add called without await: the response is sent at once.
InteractReplyUnawaited(q, response) ==
  IF "choices" \notin DOMAIN response
    THEN InteractCatch([q EXCEPT !.openAIResponse = response], NoChoicesError)
    ELSE Respond(
           [Logged(Through(q, <<"Recording", "Responded">>), "info",
                   "Agent interaction complete: " \o q.name, <<>>)
              EXCEPT !.openAIResponse = response,
                     !.agentReply = AgentReply(response),
                     !.adds = @ + 1],
           200, InteractionBody(q.name, AgentReply(response)))

\* POST handler resumed with the provider's response: the reply is read out
\* of it (which throws into the outer catch when there is no choices
\* property) and db.collection('analytics').add(...) is called and awaited.
InteractReply(q, response) ==
  IF "choices" \notin DOMAIN response
    THEN InteractCatch([q EXCEPT !.openAIResponse = response], NoChoicesError)
    ELSE [Logged(Through(q, <<"Recording">>), "info",
                 "Agent interaction complete: " \o q.name, <<>>)
            EXCEPT !.openAIResponse = response,
                   !.agentReply = AgentReply(response),
                   !.pc = "awaitAdd",
                   !.adds = @ + 1]

\* The provider's rejection answered with the fallback reply instead of 500.
InteractProviderFallback(q, error) ==
  [Logged(q, "info", "Agent interaction complete: " \o q.name, <<>>)
     EXCEPT !.agentReply = FallbackReply, !.pc = "awaitAdd", !.adds = @ + 1]

\* POST handler resumed with the provider's rejection.
InteractProviderFailed(q, error) ==
  InteractCatch(q, error)

\* The reply kept in a variable shared by all requests: the response carries
\* whatever reply another request left there.
InteractRespondShared(q) ==
  LET others == {p \in Requests : req[p].agentReply \notin {"", q.agentReply}}
  IN  Respond(Through(q, <<"Responded">>), 200,
              InteractionBody(q.name,
                              IF others = {} THEN q.agentReply
                              ELSE req[CHOOSE p \in others : TRUE].agentReply))

\* return res.json({ agent, reply, timestamp })
InteractRespond(q) ==
  Respond(Through(q, <<"Responded">>), 200, InteractionBody(q.name, q.agentReply))

\* The analytics failure left to the outer catch.
AnalyticsRethrow(q, analyticsError) ==
  InteractCatch(q, analyticsError)

\* catch (analyticsError): the failure is logged and the handler goes on.
AnalyticsCatch(q, analyticsError) ==
  InteractRespond(
    Logged(q, "error", "Failed to record analytics: " \o analyticsError.message, <<>>))

(***************************************************************************)
(* Actions                                                                 *)
(***************************************************************************)

\* The record written to one fixed document instead of added.
Overwritten(collection, record) == <<record>>

\* The analytics collection after add(record): one more document.
Added(collection, record) == Append(collection, record)

\* History: what the awaited call of request q came back with.
Outcome(q, call, outcome) ==
  [q EXCEPT !.io = [@ EXCEPT ![call] = outcome]]

\* const db = require('./firebase') returned: the server is set up and
\* listens.
Serving == firebase.pc = "exported"

\* index.js requires ./firebase: the module body runs.
RequireFirebase ==
  /\ firebase.pc = "unloaded"
  /\ firebase' = LoadModule(firebase.env)
  /\ UNCHANGED <<agents, analytics, req>>

\* A GET /api/agent/:name request arrives.
GetAgent(r, name) ==
  /\ Serving
  /\ req[r].pc = "idle"
  /\ req' = [req EXCEPT ![r] = GetStart(@, name)]
  /\ UNCHANGED <<agents, analytics, firebase>>

\* A POST /api/agent/:name/interact request arrives with a body that
\* express.json() parsed.
Interact(r, name, body) ==
  /\ Serving
  /\ req[r].pc = "idle"
  /\ req' = [req EXCEPT ![r] = InteractStart(@, name, body)]
  /\ UNCHANGED <<agents, analytics, firebase>>

\* A POST /api/agent/:name/interact request arrives with a body that
\* express.json() cannot parse: the route is skipped, the error handler
\* middleware answers.
InteractUnparsable(r, name, err) ==
  /\ Serving
  /\ req[r].pc = "idle"
  /\ req' = [req EXCEPT ![r] = ErrorHandler([@ EXCEPT !.method = "POST", !.name = name], err)]
  /\ UNCHANGED <<agents, analytics, firebase>>

\* The document read of request r resolves.
GetResolves(r) ==
  /\ req[r].pc = "awaitGet"
  /\ LET docSnap == Snapshot(agents, req[r].name)
         q == Outcome(req[r], "get", IF docSnap.exists THEN "exists" ELSE "missing")
     IN  req' = [req EXCEPT ![r] = IF q.method = "GET" THEN GetResume(q, docSnap)
                                                       ELSE InteractResume(q, docSnap)]
  /\ UNCHANGED <<agents, analytics, firebase>>

\* The document read of request r rejects.
GetRejects(r, error) ==
  /\ req[r].pc = "awaitGet"
  /\ LET q == Outcome(req[r], "get", "threw")
     IN  req' = [req EXCEPT ![r] = IF q.method = "GET" THEN GetCatch(q, error)
                                                       ELSE InteractCatch(q, error)]
  /\ UNCHANGED <<agents, analytics, firebase>>

\* The provider call of request r resolves.
CreateResolves(r, response) ==
  /\ req[r].pc = "awaitCreate"
  /\ req' = [req EXCEPT ![r] = InteractReply(Outcome(@, "create", "returned"), response)]
  /\ UNCHANGED <<agents, analytics, firebase>>

\* The provider call of request r rejects.
CreateRejects(r, error) ==
  /\ req[r].pc = "awaitCreate"
  /\ req' = [req EXCEPT ![r] = InteractProviderFailed(Outcome(@, "create", "threw"), error)]
  /\ UNCHANGED <<agents, analytics, firebase>>

\* The analytics add of request r resolves: the record is in the collection.
AddResolves(r) ==
  /\ req[r].pc = "awaitAdd"
  /\ analytics' = Added(analytics,
                        AnalyticsRecord(req[r].name, req[r].message, req[r].agentReply))
  /\ req' = [req EXCEPT ![r] = InteractRespond(Outcome(@, "add", "ok"))]
  /\ UNCHANGED <<agents, firebase>>

\* The analytics add of request r rejects: nothing is stored.
AddRejects(r, analyticsError) ==
  /\ req[r].pc = "awaitAdd"
  /\ req' = [req EXCEPT ![r] = AnalyticsCatch(Outcome(@, "add", "threw"), analyticsError)]
  /\ UNCHANGED <<agents, analytics, firebase>>

Next ==
  \E r \in Requests :
    \/ \E name \in Names : GetAgent(r, name)
    \/ \E name \in Names, body \in Bodies : Interact(r, name, body)
    \/ \E name \in Names, err \in ParseErrors : InteractUnparsable(r, name, err)
    \/ GetResolves(r)
    \/ \E error \in StoreFaults : GetRejects(r, error)
    \/ \E response \in ProviderResponses : CreateResolves(r, response)
    \/ \E error \in ProviderFaults : CreateRejects(r, error)
    \/ AddResolves(r)
    \/ \E analyticsError \in AnalyticsFaults : AddRejects(r, analyticsError)

Spec == Init /\ [][Next]_vars

(***************************************************************************)
(* One interaction against each kind of stored profile                     *)
(***************************************************************************)

\* Documents of the agents collection: personality and description each
\* absent, empty or set, with or without fields the prompt does not use.
Profiles ==
  { personality @@ description @@ others :
      personality \in { <<>>, [personality |-> ""],
                        [personality |-> "Helpful and concise market analyst"],
                        [personality |-> "Sardonic validator"] },
      description \in { <<>>, [description |-> ""],
                        [description |-> "Tracks Solana validators."] },
      others      \in { <<>>, [name |-> "Aura"],
                        [name |-> "Nova", creator |-> "9xQeWvG816bUx9EPjHmaT23yvVM2ZWbrrpZb9PusVFin"] } }

PromptStores == { [n \in {"Aura"} |-> profile] : profile \in Profiles }

PromptInit ==
  /\ agents \in PromptStores
  /\ analytics = <<>>
  /\ firebase = LoadModule(DeployedEnvironment)
  /\ req = [r \in Requests |-> Idle]

\* The interact pipeline of the first request.
PromptNext ==
  \/ \E name \in Names, body \in Bodies : Interact(1, name, body)
  \/ GetResolves(1)
  \/ \E error \in StoreFaults : GetRejects(1, error)
  \/ \E response \in ProviderResponses : CreateResolves(1, response)
  \/ \E error \in ProviderFaults : CreateRejects(1, error)
  \/ AddResolves(1)
  \/ \E analyticsError \in AnalyticsFaults : AddRejects(1, analyticsError)

PromptSpec == PromptInit /\ [][PromptNext]_vars

(***************************************************************************)
(* Start-up in every environment, then the first GET                       *)
(***************************************************************************)

BootInit ==
  /\ agents \in Stores
  /\ analytics = <<>>
  /\ firebase \in { Unloaded(env) : env \in Environments }
  /\ req = [r \in Requests |-> Idle]

BootNext ==
  \/ RequireFirebase
  \/ \E name \in Names : GetAgent(1, name)
  \/ GetResolves(1)
  \/ \E error \in StoreFaults : GetRejects(1, error)

BootSpec == BootInit /\ [][BootNext]_vars

(***************************************************************************)
(* Properties                                                              *)
(***************************************************************************)

Done(r) == req[r].pc = "done"

\* Request r reached the route handler of POST /api/agent/:name/interact.
IsInteract(r) == req[r].method = "POST" /\ req[r].parsed

IsGet(r) == req[r].method = "GET"

\* A body that fails validation: message missing, not a string, of length 0,
\* or longer than 1000.
MessageRejected(body) ==
  \/ "message" \notin DOMAIN body
  \/ "str" \notin DOMAIN body.message
  \/ Len(body.message.str) = 0
  \/ Len(body.message.str) > 1000

\* A body {message} with a string of length 1 to 1000 and nothing else.
MessageAccepted(body) ==
  /\ DOMAIN body = {"message"}
  /\ "str" \in DOMAIN body.message
  /\ Len(body.message.str) >= 1
  /\ Len(body.message.str) <= 1000

\* C1: an interact request whose body fails validation (message missing, not
\* a string, empty, or longer than 1000) is answered 400 "Validation error",
\* and it makes no document read, no provider call and no analytics write.
C1_InvalidBodyIs400BeforeAnyCall ==
  \A r \in Requests :
    (IsInteract(r) /\ MessageRejected(req[r].body)) =>
      /\ Done(r)
      /\ req[r].res.status = 400
      /\ req[r].res.body.error = "Validation error"
      /\ req[r].reads = 0 /\ req[r].creates = 0 /\ req[r].adds = 0
      /\ req[r].io = NoCalls

\* C1 witness: a message of 1001 characters and a missing message, both
\* answered 400.
C1_Witness ==
  \E r1, r2 \in Requests :
    /\ IsInteract(r1) /\ req[r1].body = [message |-> [str |-> Repeat("a", 1001)]]
    /\ req[r1].res.status = 400
    /\ IsInteract(r2) /\ req[r2].body = <<>>
    /\ req[r2].res.status = 400

\* C2: for a name that is not a document of the agents collection, a request
\* that gets to the document read (any GET, a POST with a valid body) and whose
\* read completes is answered 404 with error "Agent not found" and message
\* "The agent '<name>' does not exist in the database".
C2_AbsentAgentIs404 ==
  \A r \in Requests :
    ( /\ Done(r)
      /\ req[r].name \notin DOMAIN agents
      /\ IsGet(r) \/ (IsInteract(r) /\ MessageAccepted(req[r].body))
      /\ req[r].io.get # "threw" ) =>
        req[r].res =
          [status |-> 404,
           body   |-> [error   |-> "Agent not found",
                       message |-> "The agent '" \o req[r].name
                                     \o "' does not exist in the database"]]

\* C2 witness: GET /api/agent/unknown-agent and POST
\* /api/agent/unknown-agent/interact both answered 404.
C2_Witness ==
  \E r1, r2 \in Requests :
    /\ IsGet(r1) /\ req[r1].name = "unknown-agent" /\ req[r1].res.status = 404
    /\ IsInteract(r2) /\ req[r2].name = "unknown-agent" /\ req[r2].res.status = 404
    /\ req[r2].res.body.message = "The agent 'unknown-agent' does not exist in the database"

\* C3: when the provider call succeeded and the analytics write threw, the
\* response is 200 with the path name as agent and the reply taken from the
\* provider's response; and two requests for the same agent with the same
\* provider response that both made the analytics write have the same status
\* and body, whatever became of their writes.
C3_AnalyticsFailureIsolated ==
  /\ \A r \in Requests :
       (Done(r) /\ req[r].io.add = "threw") =>
         /\ req[r].io.create = "returned"
         /\ req[r].res.status = 200
         /\ req[r].res.body.agent = req[r].name
         /\ req[r].res.body.reply = req[r].agentReply
  /\ \A r1, r2 \in Requests :
       ( /\ Done(r1) /\ Done(r2)
         /\ req[r1].adds = 1 /\ req[r2].adds = 1
         /\ req[r1].name = req[r2].name
         /\ req[r1].openAIResponse = req[r2].openAIResponse ) =>
           req[r1].res = req[r2].res

\* C3 witness: the same interaction twice, one analytics write stored and one
\* failed, both answered.
C3_Witness ==
  \E r1, r2 \in Requests :
    /\ Done(r1) /\ Done(r2)
    /\ req[r1].io.add = "ok" /\ req[r2].io.add = "threw"
    /\ req[r1].name = req[r2].name
    /\ req[r1].openAIResponse = req[r2].openAIResponse
    /\ req[r2].res.status = 200

\* C4: when the provider call throws, the request is answered 500 "Internal
\* server error" and makes no analytics write.
C4_ProviderFailureIs500NoAnalytics ==
  \A r \in Requests :
    req[r].io.create = "threw" =>
      /\ Done(r)
      /\ req[r].res.status = 500
      /\ req[r].res.body.error = "Internal server error"
      /\ req[r].adds = 0
      /\ req[r].io.add = "none"

\* C4 witness: a provider call that threw, answered, with nothing in the
\* analytics collection.
C4_Witness ==
  \E r \in Requests :
    /\ IsInteract(r) /\ req[r].io.create = "threw" /\ req[r].res.status = 500
    /\ analytics = <<>>

\* C5: a body {message} with 1 to 1000 characters sent to an existing agent,
\* the document read and the provider call both returning, is answered 200
\* with a non-empty reply and with agent equal to the path name.
C5_ValidInteractionIs200 ==
  \A r \in Requests :
    ( /\ Done(r)
      /\ IsInteract(r) /\ MessageAccepted(req[r].body)
      /\ req[r].name \in DOMAIN agents
      /\ req[r].io.get = "exists"
      /\ req[r].io.create = "returned" ) =>
        /\ req[r].res.status = 200
        /\ req[r].res.body.agent = req[r].name
        /\ req[r].res.body.reply # ""

\* C6: a document read that throws is answered 500 "Internal server error" on
\* both endpoints, and a 404 is sent only when the read completed and reported
\* that the document does not exist.
C6_ReadFaultIsNever404 ==
  \A r \in Requests :
    /\ req[r].io.get = "threw" =>
         /\ Done(r)
         /\ req[r].res.status = 500
         /\ req[r].res.body.error = "Internal server error"
    /\ req[r].res.status = 404 =>
         /\ req[r].io.get = "missing"
         /\ req[r].name \notin DOMAIN agents
         /\ req[r].res.body.error = "Agent not found"

\* C6 witness: a failed read on each endpoint, for a document that exists,
\* both answered 500.
C6_Witness ==
  \E r1, r2 \in Requests :
    /\ IsGet(r1) /\ req[r1].io.get = "threw" /\ req[r1].res.status = 500
    /\ IsInteract(r2) /\ req[r2].io.get = "threw" /\ req[r2].res.status = 500
    /\ req[r1].name \in DOMAIN agents /\ req[r2].name \in DOMAIN agents

\* A provider response without usable text: no choices property, no first
\* choice, a first choice without message, or content that is missing, null
\* or empty.
Unusable(response) ==
  \/ "choices" \notin DOMAIN response
  \/ Len(response.choices) = 0
  \/ "message" \notin DOMAIN response.choices[1]
  \/ "content" \notin DOMAIN response.choices[1].message
  \/ "str" \notin DOMAIN response.choices[1].message.content
  \/ response.choices[1].message.content.str = ""

\* C7: when the provider call returns a response without usable text, the
\* request is answered 200 with the fixed fallback reply; and no 200
\* interaction response carries an empty reply.
C7_UnusableResponseGetsFallback ==
  \A r \in Requests :
    (Done(r) /\ IsInteract(r) /\ req[r].io.create = "returned") =>
      /\ Unusable(req[r].openAIResponse) =>
           /\ req[r].res.status = 200
           /\ req[r].res.body.reply =
                "I'm sorry, I couldn't process your request at this time."
      /\ req[r].res.status = 200 => req[r].res.body.reply # ""

\* The three 500 bodies, by the handler that sends them.
ServerErrorBody(r) ==
  [error   |-> "Internal server error",
   message |-> IF IsGet(r)
                 THEN "An unexpected error occurred while retrieving agent details"
               ELSE IF IsInteract(r)
                 THEN "An unexpected error occurred during agent interaction"
               ELSE "An unexpected error occurred"]

\* Some log line of request r carries the message and the stack of error.
InLog(r, error) ==
  \E i \in DOMAIN req[r].log :
    /\ req[r].log[i].level = "error"
    /\ req[r].log[i].message \in
         { prefix \o error.message :
             prefix \in { "Error fetching agent details: ",
                          "Error in agent interaction: ",
                          "Unhandled error: " } }
    /\ "stack" \in DOMAIN req[r].log[i].meta
    /\ req[r].log[i].meta.stack = error.stack

\* C8: a 500 body is the fixed body of the handler that sent it, with neither
\* the message nor the stack of the fault, which are in the log; and two
\* requests alike in everything but the fault that was thrown at them have
\* the same status and body.
C8_ServerErrorBodyIndependentOfFault ==
  /\ \A r \in Requests :
       (Done(r) /\ req[r].res.status = 500) =>
         /\ req[r].res.body = ServerErrorBody(r)
         /\ req[r].res.body.message \notin {req[r].fault.message, req[r].fault.stack}
         /\ InLog(r, req[r].fault)
  /\ \A r1, r2 \in Requests :
       ( /\ Done(r1) /\ Done(r2)
         /\ req[r1].method = req[r2].method /\ req[r1].name = req[r2].name
         /\ req[r1].parsed = req[r2].parsed /\ req[r1].body = req[r2].body
         /\ req[r1].io = req[r2].io
         /\ req[r1].openAIResponse = req[r2].openAIResponse ) =>
           req[r1].res = req[r2].res

\* C8 witness: the same interaction twice, the provider failing with two
\* different errors, both answered 500.
C8_Witness ==
  \E r1, r2 \in Requests :
    /\ Done(r1) /\ Done(r2)
    /\ IsInteract(r1) /\ IsInteract(r2)
    /\ req[r1].name = req[r2].name /\ req[r1].body = req[r2].body
    /\ req[r1].io.create = "threw" /\ req[r2].io.create = "threw"
    /\ req[r1].fault # req[r2].fault
    /\ req[r1].res.status = 500 /\ req[r2].res.status = 500

\* No request is waiting for a collaborator.
Quiescent == \A r \in Requests : req[r].pc \in {"idle", "done"}

IsPrefix(s, t) == Len(s) <= Len(t) /\ SubSeq(t, 1, Len(s)) = s

\* C9 as stated: once no request is in flight, the analytics collection has
\* as many records as there are interact requests answered 200.
C9_RecordCountEquals200s ==
  Quiescent =>
    Len(analytics) =
      Cardinality({r \in Requests : IsInteract(r) /\ req[r].res.status = 200})

\* C9 amended: once no request is in flight, the analytics collection has as
\* many records as there are interact requests answered 200 whose analytics
\* write succeeded; a request makes at most one write, and only on its way to
\* a 200; and a step never modifies or deletes a record, it only appends.
C9_RecordCountEqualsStoredWrites ==
  /\ [](Quiescent =>
          Len(analytics) =
            Cardinality({r \in Requests :
                           /\ IsInteract(r) /\ req[r].res.status = 200
                           /\ req[r].io.add = "ok"}))
  /\ [](\A r \in Requests :
          /\ req[r].adds <= 1
          /\ (Done(r) /\ req[r].adds = 1) => req[r].res.status = 200)
  /\ [][IsPrefix(analytics, analytics') /\ Len(analytics') <= Len(analytics) + 1]_vars

\* C9 witness: two interactions answered 200, one record stored, the other
\* write having failed.
C9_Witness ==
  \E r1, r2 \in Requests :
    /\ Quiescent
    /\ req[r1].res.status = 200 /\ req[r1].io.add = "ok"
    /\ req[r2].res.status = 200 /\ req[r2].io.add = "threw"
    /\ Len(analytics) = 1

\* Request r is the scenario: agent "Aura" as stored, the Solana question,
\* every collaborator call succeeded, and no other request was received.
AuraScenario(r) ==
  /\ agents["Aura"] = [name        |-> "Aura",
                       personality |-> "Helpful and concise market analyst",
                       description |-> ""]
  /\ IsInteract(r) /\ req[r].name = "Aura"
  /\ req[r].body = [message |-> [str |-> "What is the current market cap of Solana?"]]
  /\ Done(r)
  /\ req[r].io = [get |-> "exists", create |-> "returned", add |-> "ok"]
  /\ \A p \in Requests \ {r} : req[p].pc = "idle"

\* C10 as stated: the scenario is answered 200 with agent "Aura" and a
\* non-empty reply, and leaves exactly one analytics record, which has
\* messageLength 42.
C10_AuraScenarioLength42 ==
  \A r \in Requests :
    AuraScenario(r) =>
      /\ req[r].res.status = 200
      /\ req[r].res.body.agent = "Aura"
      /\ req[r].res.body.reply # ""
      /\ Len(analytics) = 1
      /\ analytics[1].messageLength = 42

\* C10 amended: the same, with messageLength 41, the number of characters of
\* "What is the current market cap of Solana?".
C10_AuraScenarioLength41 ==
  \A r \in Requests :
    AuraScenario(r) =>
      /\ req[r].res.status = 200
      /\ req[r].res.body.agent = "Aura"
      /\ req[r].res.body.reply # ""
      /\ Len(analytics) = 1
      /\ analytics[1].agent = "Aura"
      /\ analytics[1].type = "interaction"
      /\ analytics[1].messageLength = 41

\* C10 witness: the scenario answered, its record stored.
C10_Witness ==
  \E r \in Requests :
    /\ AuraScenario(r)
    /\ analytics = <<[agent          |-> "Aura",
                      timestamp      |-> ServerTimestamp,
                      messageLength  |-> 41,
                      responseLength |-> Len(req[r].res.body.reply),
                      type           |-> "interaction"]>>

\* The per-request state machine.  Rejected, NotFound, Failed and Recording
\* lead to Responded; a failed read goes from Resolving to Failed, failures
\* short-circuiting to the error response.
PhaseEdges ==
  { <<"Received", "Validating">>,
    <<"Validating", "Rejected">>, <<"Validating", "Resolving">>,
    <<"Resolving", "NotFound">>, <<"Resolving", "Prompting">>, <<"Resolving", "Failed">>,
    <<"Prompting", "Generating">>,
    <<"Generating", "Failed">>, <<"Generating", "Recording">>,
    <<"Rejected", "Responded">>, <<"NotFound", "Responded">>,
    <<"Failed", "Responded">>, <<"Recording", "Responded">> }

\* ps is a path of the state machine from Received.
FollowsMachine(ps) ==
  /\ Len(ps) > 0 /\ ps[1] = "Received"
  /\ \A i \in 1..(Len(ps) - 1) : <<ps[i], ps[i + 1]>> \in PhaseEdges

\* C11 (safety part): every interact request follows the state machine,
\* Recording is entered on every generation success (the provider call
\* returned), and a request that is answered has reached Responded exactly
\* once, with one response.
C11_FollowsStateMachine ==
  \A r \in Requests :
    IsInteract(r) =>
      /\ FollowsMachine(req[r].phases)
      /\ req[r].io.create = "returned" =>
           \E i \in DOMAIN req[r].phases : req[r].phases[i] = "Recording"
      /\ Done(r) <=> req[r].phases[Len(req[r].phases)] = "Responded"
      /\ Done(r) <=> req[r].res.status # 0
      /\ Cardinality({i \in DOMAIN req[r].phases : req[r].phases[i] = "Responded"}) <= 1

\* Each collaborator call eventually returns or throws.
FairSpec ==
  /\ Spec
  /\ \A r \in Requests :
       /\ WF_vars(GetResolves(r) \/ \E error \in StoreFaults : GetRejects(r, error))
       /\ WF_vars(\/ \E response \in ProviderResponses : CreateResolves(r, response)
                  \/ \E error \in ProviderFaults : CreateRejects(r, error))
       /\ WF_vars(AddResolves(r) \/ \E error \in AnalyticsFaults : AddRejects(r, error))

\* C11 (liveness part): every request received is eventually answered.
C11_EventuallyResponded ==
  \A r \in Requests : (req[r].pc # "idle") ~> (Done(r) /\ req[r].res.status # 0)

\* C12: a 200 interaction response is sent only after the analytics write has
\* completed or failed: every answered 200 has made its write and has had its
\* outcome, and a request whose write is pending has sent no response.
C12_ResponseAfterAnalyticsSettles ==
  \A r \in Requests :
    /\ (IsInteract(r) /\ req[r].res.status = 200) =>
         /\ req[r].adds = 1
         /\ req[r].io.add \in {"ok", "threw"}
    /\ (req[r].adds = 1 /\ req[r].io.add = "none") =>
         /\ req[r].pc = "awaitAdd"
         /\ req[r].res = NoResponse

\* C12 witness: one request answered 200 after its write failed, another
\* still waiting for its write, unanswered.
C12_Witness ==
  \E r1, r2 \in Requests :
    /\ req[r1].res.status = 200 /\ req[r1].io.add = "threw"
    /\ req[r2].pc = "awaitAdd" /\ req[r2].res = NoResponse

\* The response request r gets when it runs alone, from its own input, the
\* content of the agents collection and the results of its own collaborator
\* calls.
AloneResponse(r) ==
  IF IsGet(r) THEN
    IF req[r].io.get = "threw" THEN [status |-> 500, body |-> ServerErrorBody(r)]
    ELSE IF req[r].name \notin DOMAIN agents
      THEN [status |-> 404,
            body   |-> [error   |-> "Agent not found",
                        message |-> "The agent '" \o req[r].name
                                      \o "' does not exist in the database"]]
    ELSE [status |-> 200, body |-> agents[req[r].name]]
  ELSE IF ~IsInteract(r) THEN [status |-> 500, body |-> ServerErrorBody(r)]
  ELSE IF ~MessageAccepted(req[r].body)
    THEN [status |-> 400,
          body   |-> [error |-> "Validation error", message |-> Validate(req[r].body).message]]
  ELSE IF req[r].io.get = "threw" THEN [status |-> 500, body |-> ServerErrorBody(r)]
  ELSE IF req[r].name \notin DOMAIN agents
    THEN [status |-> 404,
          body   |-> [error   |-> "Agent not found",
                      message |-> "The agent '" \o req[r].name
                                    \o "' does not exist in the database"]]
  ELSE IF req[r].io.create = "threw" THEN [status |-> 500, body |-> ServerErrorBody(r)]
  ELSE IF "choices" \notin DOMAIN req[r].openAIResponse
    THEN [status |-> 500, body |-> ServerErrorBody(r)]
  ELSE [status |-> 200,
        body   |-> [agent     |-> req[r].name,
                    reply     |-> IF Unusable(req[r].openAIResponse)
                                    THEN "I'm sorry, I couldn't process your request at this time."
                                    ELSE req[r].openAIResponse.choices[1].message.content.str,
                    timestamp |-> IsoNow]]

\* C13: under every interleaving of the requests at their await points, the
\* status and body of each answered request are those of the same request run
\* alone with the same collaborator results; a step changes the state of one
\* request only, never the agents collection, and the analytics collection
\* only by appending.
C13_RequestsDoNotInterfere ==
  /\ [](\A r \in Requests : Done(r) => req[r].res = AloneResponse(r))
  /\ [][ /\ \A r1, r2 \in Requests :
              (req'[r1] # req[r1] /\ req'[r2] # req[r2]) => r1 = r2
         /\ agents' = agents
         /\ IsPrefix(analytics, analytics') ]_vars

\* C13 witness: two interactions with the same agent, answered with
\* different replies, both recorded.
C13_Witness ==
  \E r1, r2 \in Requests :
    /\ r1 # r2
    /\ IsInteract(r1) /\ IsInteract(r2)
    /\ req[r1].name = "Aura" /\ req[r2].name = "Aura"
    /\ req[r1].res.status = 200 /\ req[r2].res.status = 200
    /\ req[r1].res.body.reply # req[r2].res.body.reply
    /\ Len(analytics) = 2

C15_GetReadsRepositoryOnly ==
  /\ [](\A r \in Requests :
          IsGet(r) =>
            /\ req[r].reads = 1 /\ req[r].creates = 0 /\ req[r].adds = 0
            /\ req[r].io.create = "none" /\ req[r].io.add = "none"
            /\ Done(r) => /\ req[r].res.status \in {200, 404, 500}
                          /\ req[r].io.get # "none")
  /\ [][ (\E r \in Requests : req'[r].method = "GET" /\ req'[r] # req[r]) =>
           (agents' = agents /\ analytics' = analytics) ]_vars

\* C15 witness: GETs answered 200 and 404 after one read each, with nothing
\* written.
C15_Witness ==
  \E r1, r2 \in Requests :
    /\ IsGet(r1) /\ req[r1].res.status = 200 /\ req[r1].reads = 1
    /\ IsGet(r2) /\ req[r2].res.status = 404 /\ req[r2].reads = 1
    /\ analytics = <<>>

\* The system prompt for a name, a personality and a description.
PromptOf(name, personality, description) ==
  "You are " \o name \o ", a helpful AI agent with the following personality: "
    \o personality \o " " \o description
    \o "\n    \n    When responding, always maintain your character and consider your knowledge about the Solana blockchain environment."
    \o "\n    Your answers should be concise, helpful, and accurate. If you don't know something, admit it rather than making up information."
    \o "\n    "

\* C16: the system prompt of an interaction is a function of the path name,
\* the stored personality and the stored description alone: a missing (or
\* empty) personality reads as "neutral and general.", a missing description
\* as the empty string, and no other field of the profile has any effect.
C16_PromptIsFunctionOfTriple ==
  \A r \in Requests :
    (IsInteract(r) /\ req[r].io.get = "exists") =>
      LET profile == agents[req[r].name]
      IN  req[r].systemPrompt =
            PromptOf(req[r].name,
                     IF "personality" \in DOMAIN profile /\ profile.personality # ""
                       THEN profile.personality ELSE "neutral and general.",
                     IF "description" \in DOMAIN profile
                       THEN profile.description ELSE "")

\* C16 witness: a profile with neither personality nor description but with
\* other fields, its prompt built with the two defaults.
C16_Witness ==
  \E r \in Requests :
    /\ IsInteract(r) /\ req[r].pc = "awaitCreate"
    /\ DOMAIN agents[req[r].name] = {"name", "creator"}
    /\ req[r].systemPrompt = PromptOf(req[r].name, "neutral and general.", "")

\* C17: when the document read of an interact request reports that the agent
\* does not exist, the request is answered 404 "Agent not found" and makes no
\* provider call and no analytics write.
C17_NotFoundShortCircuits ==
  \A r \in Requests :
    (IsInteract(r) /\ req[r].io.get = "missing") =>
      /\ Done(r)
      /\ req[r].res.status = 404
      /\ req[r].res.body.error = "Agent not found"
      /\ req[r].creates = 0 /\ req[r].adds = 0
      /\ req[r].io.create = "none" /\ req[r].io.add = "none"
      /\ req[r].systemPrompt = ""

\* C17 witness: a valid message for unknown-agent answered 404 after one
\* read, while no record was written.
C17_Witness ==
  \E r \in Requests :
    /\ IsInteract(r) /\ MessageAccepted(req[r].body)
    /\ req[r].io.get = "missing" /\ req[r].reads = 1
    /\ req[r].res.status = 404
    /\ analytics = <<>>

\* C18: the step that stores an analytics record appends the record whose
\* agent is the path name of the writing request, type "interaction",
\* messageLength the length of the message of its validated body and
\* responseLength the length of the reply in the 200 response the same
\* request sends; and the collection changes in no other step.
C18_RecordMatchesItsRequest ==
  /\ [][\A r \in Requests :
          (req[r].pc = "awaitAdd" /\ req'[r].io.add = "ok") =>
            /\ req'[r].res.status = 200
            /\ analytics' =
                 Append(analytics,
                        [agent          |-> req'[r].name,
                         timestamp      |-> ServerTimestamp,
                         messageLength  |-> Len(req'[r].body.message.str),
                         responseLength |-> Len(req'[r].res.body.reply),
                         type           |-> "interaction"])]_vars
  /\ [][analytics' # analytics =>
          \E r \in Requests : req[r].pc = "awaitAdd" /\ req'[r].io.add = "ok"]_vars

\* C18 witness: the Solana question answered with the fallback reply, its
\* record stored with the lengths of the question and of the fallback.
C18_Witness ==
  \E r \in Requests :
    /\ Done(r) /\ req[r].io.add = "ok"
    /\ req[r].body.message.str = SolanaQuestion
    /\ req[r].res.body.reply = "I'm sorry, I couldn't process your request at this time."
    /\ analytics =
         << [agent          |-> req[r].name,
             timestamp      |-> ServerTimestamp,
             messageLength  |-> Len(SolanaQuestion),
             responseLength |-> Len("I'm sorry, I couldn't process your request at this time."),
             type           |-> "interaction"] >>

\* C19: on the interact endpoint a body that fails validation is answered 400
\* without a read, whatever the name; a read that throws is answered 500
\* without a provider call; a missing document is answered 404 without a
\* provider call; the provider decides only between 200 and 500, for a valid
\* body and an existing document; and every status is 200, 400, 404 or 500.
C19_OutcomePrecedence ==
  \A r \in Requests :
    /\ (IsInteract(r) /\ ~MessageAccepted(req[r].body)) =>
         /\ Done(r) /\ req[r].res.status = 400
         /\ req[r].reads = 0 /\ req[r].io = NoCalls
    /\ (IsInteract(r) /\ req[r].io.get = "threw") =>
         /\ Done(r) /\ req[r].res.status = 500
         /\ req[r].creates = 0 /\ req[r].io.create = "none"
    /\ (IsInteract(r) /\ req[r].io.get = "missing") =>
         /\ Done(r) /\ req[r].res.status = 404
         /\ req[r].creates = 0 /\ req[r].io.create = "none"
    /\ (IsInteract(r) /\ req[r].io.create # "none") =>
         /\ MessageAccepted(req[r].body) /\ req[r].io.get = "exists"
         /\ Done(r) => req[r].res.status \in {200, 500}
    /\ (req[r].method = "POST" /\ Done(r)) =>
         req[r].res.status \in {200, 400, 404, 500}
    /\ (req[r].method = "POST" /\ req[r].res.status = 200) =>
         /\ MessageAccepted(req[r].body)
         /\ req[r].io.get = "exists" /\ req[r].io.create = "returned"

\* C19 witness: an invalid body for unknown-agent answered 400, and a valid
\* body for an existing agent whose read threw answered 500.
C19_Witness ==
  \E r1, r2 \in Requests :
    /\ IsInteract(r1) /\ req[r1].name \notin DOMAIN agents
    /\ ~MessageAccepted(req[r1].body) /\ req[r1].res.status = 400
    /\ IsInteract(r2) /\ req[r2].name \in DOMAIN agents
    /\ MessageAccepted(req[r2].body)
    /\ req[r2].io.get = "threw" /\ req[r2].res.status = 500

\* C20: when the initialisation of the document store failed (unparsable
\* SERVICE_ACCOUNT_KEY, missing service-account file, initializeApp throwing),
\* the module in production rethrows that error and exports no db handle; in
\* any other mode it logs the failure, goes on to export the db handle, and
\* every request then served is answered 500.
C20_InitFailureFatalOnlyInProduction ==
  (firebase.pc # "unloaded" /\ firebase.failed) =>
    IF firebase.env.NODE_ENV = "production"
      THEN /\ firebase.pc = "threw"
           /\ firebase.thrown = TryInitialize(firebase.env).error
      ELSE /\ firebase.pc = "exported"
           /\ \E i \in DOMAIN firebase.log : firebase.log[i].level = "warn"
           /\ \A r \in Requests : Done(r) => req[r].res.status = 500

====
